---- MODULE Spec2Model ----
(***************************************************************************)
(* The ChatSession Durable Object of cf_ai_notex: one actor per note that  *)
(* keeps the chat history of that note in its durable storage.             *)
(*                                                                         *)
(* Text values are sequences of one-character strings, so that slice()     *)
(* and emptiness are computed rather than assumed.  A value the code may   *)
(* hold as null/undefined is the record Null.                              *)
(*                                                                         *)
(* Scheduling.  A Durable Object delivers one event at a time and keeps    *)
(* its input gate closed while a storage operation is awaited, so each     *)
(* handler runs atomically except where it awaits something that is not    *)
(* storage.  The only such await after a handler has touched state is      *)
(* env.AI.run in handleMessage: while that promise is pending the object   *)
(* accepts further requests and alarms.  handleMessage is therefore two    *)
(* steps (handleMessage up to the call, AIReturns for the rest); every     *)
(* other handler is one step.                                              *)
(***************************************************************************)
EXTENDS Integers, Sequences, FiniteSets, TLC

\* ---------------------------------------------------------------- bounds
MaxOps == 3          \* requests dispatched in one behaviour
MaxInFlight == 2     \* handleMessage calls suspended on env.AI.run at once
MaxDays == 1         \* the clock runs up to MaxDays * 24h

\* ------------------------------------------------------ program constants
MaxMessages == 50                          \* messages.slice(-50)
RecentWindow == 10                         \* messages.slice(-10)
ContentLimit == 2000                       \* m.content.slice(0, 2000)
ContextLimit == 4000                       \* noteContext.slice(0, 4000)
twentyFourHours == 24 * 60 * 60 * 1000     \* alarm(): 24 * 60 * 60 * 1000

VARIABLES
    now,          \* Date.now()
    sessionData,  \* this.sessionData: Null or [noteId, noteContext, lastActivity]
    storage,      \* this.state.storage: the records 'sessionData' and 'messages'
    alarm,        \* the wake-ups pending in this.state.storage (setAlarm overwrites)
    inflight,     \* handleMessage calls awaiting env.AI.run, with their locals
                  \* (and prior: the request that had completed last before)
    ops,          \* number of requests and alarms dispatched so far
    response,     \* what the most recently completed handler returned
    lastTouch,    \* history: when /init, /message or /store last ran
    win,          \* one construction of the context window of handleMessage
    wf,           \* one run of SummaryWorkflow or QuestionsWorkflow
    chat,         \* what handleChat of the Worker returned for the /message
                  \* response it received last
    pending,      \* a run of a workflow for another request, suspended at its
                  \* await while the run in wf executes
    peer          \* the ChatSession object of another key, while the object
                  \* of this key handles a request

vars == <<now, sessionData, storage, alarm, inflight, ops, response, lastTouch,
          win, wf, chat, pending, peer>>

\* what a ChatSession never touches
others == <<win, wf, pending, peer>>

Null == [null |-> TRUE]

\* ------------------------------------------------------------ JS helpers
\* Array.prototype.slice(-n) and String.prototype.slice(-n), n > 0
SliceLast_NoCut(s, n) == s

SliceLast_KeepOldest(s, n) ==
    IF Len(s) <= n THEN s ELSE SubSeq(s, 1, n)

SliceLast(s, n) ==
    IF Len(s) <= n THEN s ELSE SubSeq(s, Len(s) - n + 1, Len(s))

\* String.prototype.slice(0, n)
SliceFirst(s, n) ==
    IF Len(s) <= n THEN s ELSE SubSeq(s, 1, n)

\* !role: the empty string (and a missing field) is falsy
NoRole_Unchecked(role) == FALSE

NoRole(role) == role = ""

\* !content, for a text: the empty text (and a missing field) is falsy
NoContent_Unchecked(content) == FALSE

NoContent(content) == content = <<>>

\* ChatMessage
ChatMessage_AlwaysUser(role, content, timestamp) ==
    [role |-> "user", content |-> content, timestamp |-> timestamp]

ChatMessage(role, content, timestamp) ==
    [role |-> role, content |-> content, timestamp |-> timestamp]

\* getMessages(): the stored array, or [] when the record is absent.  The
\* handlers only ever store a non-empty array, so the absent record is <<>>.
getMessages == storage.messages

\* 'Sorry, I could not generate a response.'
SorryReply == <<"S", "o", "r", "r", "y">>

\* the text around the note context in systemPrompt
PromptHead == <<"Y", "o", "u">>
PromptTail == <<"B", "e">>

systemPrompt(noteContext) ==
    PromptHead \o SliceFirst(noteContext, ContextLimit) \o PromptTail

\* aiMessages: the system prompt, then the last 10 messages with cut content
aiMessages_Uncut(messages, noteContext) ==
    LET recentMessages == SliceLast(messages, RecentWindow)
    IN  <<[role |-> "system", content |-> systemPrompt(noteContext)]>>
        \o [i \in 1..Len(recentMessages) |->
              [role |-> recentMessages[i].role,
               content |-> recentMessages[i].content]]

aiMessages(messages, noteContext) ==
    LET recentMessages == SliceLast(messages, RecentWindow)
    IN  <<[role |-> "system", content |-> systemPrompt(noteContext)]>>
        \o [i \in 1..Len(recentMessages) |->
              [role |-> recentMessages[i].role,
               content |-> SliceFirst(recentMessages[i].content, ContentLimit)]]

\* ---------------------------------------------------------------- inputs
NoteIds == {"n1"}
InitContexts == {<<"a">>}
PostContexts == {<<"b">>}
Messages == {<<"q">>}
Contents == {<<>>, <<"w">>}
Roles == {"", "assistant", "tool"}
Replies == {<<>>, <<"r">>}

\* what env.AI.run can do: reject, or resolve with a response text
\* (empty when the field is missing or empty)
AIOutcomes == {[kind |-> "throw"]} \cup {[kind |-> "value", response |-> r] : r \in Replies}

\* the instants the clock can show: each 24h boundary and the
\* millisecond after it
Offsets == {0, 1}

TimePoints ==
    {k * twentyFourHours + j : k \in 0..MaxDays, j \in Offsets}

\* ---------------------------------------------------------------- Init
\* A history left in storage by earlier StoreMessage calls on a key that
\* was never initialized: n messages stored at time 0.
Seed(n) == [i \in 1..n |-> ChatMessage("assistant", [j \in 1..i |-> "s"], 0)]

SeedLens == {0, MaxMessages - 1}

\* constructor: this.sessionData = storage.get('sessionData')
Init ==
    /\ now = 0
    /\ \E n \in SeedLens : storage = [sessionData |-> Null, messages |-> Seed(n)]
    /\ sessionData = Null
    /\ alarm = {}
    /\ inflight = {}
    /\ ops = 0
    /\ response = [op |-> "none", req |-> 0, status |-> 0, body |-> Null]
    /\ lastTouch = 0
    /\ win = Null
    /\ wf = Null
    /\ chat = Null
    /\ pending = Null
    /\ peer = Null

\* ---------------------------------------------------------------- time
Tick ==
    /\ UNCHANGED <<others, chat>>
    /\ \E t \in TimePoints : t > now /\ now' = t
    /\ UNCHANGED <<sessionData, storage, alarm, inflight, ops, response, lastTouch>>

\* ------------------------------------------------------------ operations
Json(op, status, body) ==
    [op |-> op, req |-> ops + 1, status |-> status, body |-> body]

\* POST /init
handleInit_StacksAlarms(noteId, noteContext) ==
    /\ UNCHANGED <<others, chat>>
    /\ ops < MaxOps
    /\ ops' = ops + 1
    /\ lastTouch' = now
    /\ sessionData' = [noteId |-> noteId, noteContext |-> noteContext,
                       lastActivity |-> now]
    /\ storage' = [storage EXCEPT !.sessionData = sessionData']
    /\ alarm' = alarm \cup {now + twentyFourHours}
    /\ response' = Json("init", 200, [success |-> TRUE])
    /\ UNCHANGED <<now, inflight>>

handleInit_ClearsHistory(noteId, noteContext) ==
    /\ UNCHANGED <<others, chat>>
    /\ ops < MaxOps
    /\ ops' = ops + 1
    /\ lastTouch' = now
    /\ sessionData' = [noteId |-> noteId, noteContext |-> noteContext,
                       lastActivity |-> now]
    /\ storage' = [sessionData |-> sessionData', messages |-> <<>>]
    /\ alarm' = {now + twentyFourHours}
    /\ response' = Json("init", 200, [success |-> TRUE])
    /\ UNCHANGED <<now, inflight>>

handleInit(noteId, noteContext) ==
    /\ UNCHANGED <<others, chat>>
    /\ ops < MaxOps
    /\ ops' = ops + 1
    /\ lastTouch' = now
    /\ sessionData' = [noteId |-> noteId, noteContext |-> noteContext,
                       lastActivity |-> now]
    /\ storage' = [storage EXCEPT !.sessionData = sessionData']
    /\ alarm' = {now + twentyFourHours}
    /\ response' = Json("init", 200, [success |-> TRUE])
    /\ UNCHANGED <<now, inflight>>

\* handleChat of the Worker, from the /message response of the object to
\* its own response: { reply: data.reply, history: data.history } with
\* status 200, whatever the status of the response it received.
\* JSON.stringify leaves out a field that is undefined; the object without
\* fields is [empty |-> TRUE].
handleChat(doResponse) ==
    LET data == doResponse.body
        hasReply == "reply" \in DOMAIN data
        hasHistory == "history" \in DOMAIN data
    IN  [status |-> 200,
         body |-> IF hasReply /\ hasHistory
                  THEN [reply |-> data.reply, history |-> data.history]
                  ELSE IF hasReply THEN [reply |-> data.reply]
                  ELSE IF hasHistory THEN [history |-> data.history]
                  ELSE [empty |-> TRUE]]

\* handleMessage, !this.sessionData: the 400 response
rejectMessage_Persisting(message) ==
    /\ response' = Json("message", 400, [error |-> "Session not initialized"])
    /\ storage' = [storage EXCEPT
                     !.messages = Append(getMessages, ChatMessage("user", message, now))]
    /\ UNCHANGED <<now, sessionData, alarm, inflight>>

rejectMessage(message) ==
    /\ response' = Json("message", 400, [error |-> "Session not initialized"])
    /\ UNCHANGED <<now, sessionData, storage, alarm, inflight>>

\* POST /message, up to and including the call of env.AI.run
handleMessage_ContextInMemoryOnly(message, hasContext, noteContext) ==
    /\ UNCHANGED others
    /\ ops < MaxOps
    /\ ops' = ops + 1
    /\ lastTouch' = now
    /\ IF sessionData = Null
       THEN /\ rejectMessage(message)
            /\ UNCHANGED chat    \* handleChat has called /init before
       ELSE /\ Cardinality(inflight) < MaxInFlight
            /\ UNCHANGED chat
            /\ sessionData' =
                 IF hasContext
                 THEN [sessionData EXCEPT !.noteContext = noteContext,
                                          !.lastActivity = now]
                 ELSE sessionData
            /\ storage' = storage
            /\ LET messages == Append(getMessages, ChatMessage("user", message, now))
               IN  inflight' = inflight \cup
                     {[req |-> ops + 1,
                       prior |-> response.req,
                       messages |-> messages,
                       aiMessages |-> aiMessages(messages, sessionData'.noteContext)]}
            /\ UNCHANGED <<now, alarm, response>>

handleMessage(message, hasContext, noteContext) ==
    /\ UNCHANGED others
    /\ ops < MaxOps
    /\ ops' = ops + 1
    /\ lastTouch' = now
    /\ IF sessionData = Null
       THEN /\ rejectMessage(message)
            /\ UNCHANGED chat    \* handleChat has called /init before
       ELSE /\ Cardinality(inflight) < MaxInFlight
            /\ UNCHANGED chat
            /\ sessionData' =
                 IF hasContext
                 THEN [sessionData EXCEPT !.noteContext = noteContext,
                                          !.lastActivity = now]
                 ELSE sessionData
            /\ storage' =
                 IF hasContext
                 THEN [storage EXCEPT !.sessionData = sessionData']
                 ELSE storage
            /\ LET messages == Append(getMessages, ChatMessage("user", message, now))
               IN  inflight' = inflight \cup
                     {[req |-> ops + 1,
                       prior |-> response.req,
                       messages |-> messages,
                       aiMessages |-> aiMessages(messages, sessionData'.noteContext)]}
            /\ UNCHANGED <<now, alarm, response>>

\* handleMessage, the catch block: env.AI.run rejected
aiFailed_Persisting(call) ==
    /\ response' = [op |-> "message", req |-> call.req, status |-> 500,
                    body |-> [error |-> "AI request failed"]]
    /\ storage' = [storage EXCEPT !.messages = SliceLast(call.messages, MaxMessages)]
    /\ UNCHANGED <<now, sessionData, alarm, ops>>

aiFailed(call) ==
    /\ response' = [op |-> "message", req |-> call.req, status |-> 500,
                    body |-> [error |-> "AI request failed"]]
    /\ UNCHANGED <<now, sessionData, storage, alarm, ops>>

\* handleMessage, the try block after env.AI.run resolved
aiSucceeded_ReturnsUntrimmed(call, aiResponse) ==
    LET reply == IF aiResponse = <<>> THEN SorryReply ELSE aiResponse
        messages == Append(call.messages, ChatMessage("assistant", reply, now))
        messagesToKeep == SliceLast(messages, MaxMessages)
    IN  /\ sessionData' = [sessionData EXCEPT !.lastActivity = now]
        /\ storage' = [sessionData |-> sessionData', messages |-> messagesToKeep]
        /\ response' = [op |-> "message", req |-> call.req, status |-> 200,
                        body |-> [reply |-> reply, history |-> messages]]
        /\ UNCHANGED <<now, alarm, ops>>

aiSucceeded_KeepsActivity(call, aiResponse) ==
    LET reply == IF aiResponse = <<>> THEN SorryReply ELSE aiResponse
        messages == Append(call.messages, ChatMessage("assistant", reply, now))
        messagesToKeep == SliceLast(messages, MaxMessages)
    IN  /\ sessionData' = sessionData
        /\ storage' = [sessionData |-> sessionData', messages |-> messagesToKeep]
        /\ response' = [op |-> "message", req |-> call.req, status |-> 200,
                        body |-> [reply |-> reply, history |-> messagesToKeep]]
        /\ UNCHANGED <<now, alarm, ops>>

aiSucceeded(call, aiResponse) ==
    LET reply == IF aiResponse = <<>> THEN SorryReply ELSE aiResponse
        messages == Append(call.messages, ChatMessage("assistant", reply, now))
        messagesToKeep == SliceLast(messages, MaxMessages)
    IN  /\ sessionData' = [sessionData EXCEPT !.lastActivity = now]
        /\ storage' = [sessionData |-> sessionData', messages |-> messagesToKeep]
        /\ response' = [op |-> "message", req |-> call.req, status |-> 200,
                        body |-> [reply |-> reply, history |-> messagesToKeep]]
        /\ UNCHANGED <<now, alarm, ops>>

\* POST /message, from the return of env.AI.run to the response
AIReturns(call, outcome) ==
    /\ UNCHANGED others
    /\ call \in inflight
    /\ inflight' = inflight \ {call}
    /\ lastTouch' = now
    /\ IF outcome.kind = "throw"
       THEN aiFailed(call)
       ELSE aiSucceeded(call, outcome.response)
    /\ chat' = handleChat(response')

\* POST /store
handleStoreMessage_NoPut(role, content) ==
    /\ UNCHANGED <<others, chat>>
    /\ ops < MaxOps
    /\ ops' = ops + 1
    /\ lastTouch' = now
    /\ IF NoRole(role) \/ NoContent(content)
       THEN /\ response' = Json("store", 400, [error |-> "Missing role or content"])
            /\ UNCHANGED <<now, sessionData, storage, alarm, inflight>>
       ELSE LET messages == Append(getMessages, ChatMessage(role, content, now))
                messagesToKeep == SliceLast(messages, MaxMessages)
            IN  /\ sessionData' =
                      IF sessionData # Null
                      THEN [sessionData EXCEPT !.lastActivity = now]
                      ELSE sessionData
                /\ storage' = [storage EXCEPT !.messages = messagesToKeep]
                /\ response' = Json("store", 200, [success |-> TRUE])
                /\ UNCHANGED <<now, alarm, inflight>>

handleStoreMessage(role, content) ==
    /\ UNCHANGED <<others, chat>>
    /\ ops < MaxOps
    /\ ops' = ops + 1
    /\ lastTouch' = now
    /\ IF NoRole(role) \/ NoContent(content)
       THEN /\ response' = Json("store", 400, [error |-> "Missing role or content"])
            /\ UNCHANGED <<now, sessionData, storage, alarm, inflight>>
       ELSE LET messages == Append(getMessages, ChatMessage(role, content, now))
                messagesToKeep == SliceLast(messages, MaxMessages)
            IN  /\ sessionData' =
                      IF sessionData # Null
                      THEN [sessionData EXCEPT !.lastActivity = now]
                      ELSE sessionData
                /\ storage' =
                      IF sessionData # Null
                      THEN [sessionData |-> sessionData', messages |-> messagesToKeep]
                      ELSE [storage EXCEPT !.messages = messagesToKeep]
                /\ response' = Json("store", 200, [success |-> TRUE])
                /\ UNCHANGED <<now, alarm, inflight>>

\* GET /history
handleGetHistory_Touches ==
    /\ UNCHANGED <<others, chat>>
    /\ ops < MaxOps
    /\ ops' = ops + 1
    /\ sessionData' = IF sessionData # Null
                      THEN [sessionData EXCEPT !.lastActivity = now]
                      ELSE sessionData
    /\ storage' = [storage EXCEPT !.sessionData = sessionData']
    /\ response' = Json("history", 200, [messages |-> getMessages])
    /\ UNCHANGED <<now, alarm, inflight, lastTouch>>

handleGetHistory ==
    /\ UNCHANGED <<others, chat>>
    /\ ops < MaxOps
    /\ ops' = ops + 1
    /\ response' = Json("history", 200, [messages |-> getMessages])
    /\ UNCHANGED <<now, sessionData, storage, alarm, inflight, lastTouch>>

\* POST /clear
handleClear_DeletesAll ==
    /\ UNCHANGED <<others, chat>>
    /\ ops < MaxOps
    /\ ops' = ops + 1
    /\ storage' = [sessionData |-> Null, messages |-> <<>>]
    /\ alarm' = {}
    /\ response' = Json("clear", 200, [success |-> TRUE])
    /\ UNCHANGED <<now, sessionData, inflight, lastTouch>>

handleClear ==
    /\ UNCHANGED <<others, chat>>
    /\ ops < MaxOps
    /\ ops' = ops + 1
    /\ storage' = [storage EXCEPT !.messages = <<>>]
    /\ response' = Json("clear", 200, [success |-> TRUE])
    /\ UNCHANGED <<now, sessionData, alarm, inflight, lastTouch>>

\* alarm(): this.sessionData.lastActivity + twentyFourHours
nextAlarmTime_FromNow == now + twentyFourHours

nextAlarmTime == sessionData.lastActivity + twentyFourHours

\* alarm(): storage.delete('messages')
cleanUp_WholeSession ==
    storage' = [sessionData |-> Null, messages |-> <<>>]

cleanUp ==
    storage' = [storage EXCEPT !.messages = <<>>]

\* alarm().  The platform runs it once the scheduled time has come, and the
\* wake-up that fired is no longer pending when the handler starts.  It is
\* delivered however many requests came before it, so it has no bound of
\* its own: every run either ends with no wake-up pending or with one that
\* lies in the future.
Alarm_StrictExpiry ==
    /\ UNCHANGED <<others, chat>>
    /\ \E t \in alarm : now >= t
    /\ ops' = ops + 1
    /\ IF sessionData # Null
       THEN LET inactiveDuration == now - sessionData.lastActivity
            IN  IF inactiveDuration > twentyFourHours
                THEN /\ cleanUp
                     /\ alarm' = {}
                ELSE /\ alarm' = {nextAlarmTime}
                     /\ UNCHANGED storage
       ELSE /\ alarm' = {}
            /\ UNCHANGED storage
    /\ response' = [op |-> "alarm", req |-> ops + 1, status |-> 0, body |-> Null]
    /\ UNCHANGED <<now, sessionData, inflight, lastTouch>>

Alarm ==
    /\ UNCHANGED <<others, chat>>
    /\ \E t \in alarm : now >= t
    /\ ops' = ops + 1
    /\ IF sessionData # Null
       THEN LET inactiveDuration == now - sessionData.lastActivity
            IN  IF inactiveDuration >= twentyFourHours
                THEN /\ cleanUp
                     /\ alarm' = {}
                ELSE /\ alarm' = {nextAlarmTime}
                     /\ UNCHANGED storage
       ELSE /\ alarm' = {}
            /\ UNCHANGED storage
    /\ response' = [op |-> "alarm", req |-> ops + 1, status |-> 0, body |-> Null]
    /\ UNCHANGED <<now, sessionData, inflight, lastTouch>>

\* the object is evicted while no request is running and constructed again:
\* blockConcurrencyWhile loads this.sessionData from storage
constructor_ArmsAlarm ==
    /\ UNCHANGED <<others, chat>>
    /\ inflight = {}
    /\ sessionData' = storage.sessionData
    /\ alarm' = {now + twentyFourHours}
    /\ UNCHANGED <<now, storage, inflight, ops, response, lastTouch>>

constructor ==
    /\ UNCHANGED <<others, chat>>
    /\ inflight = {}
    /\ sessionData' = storage.sessionData
    /\ UNCHANGED <<now, storage, alarm, inflight, ops, response, lastTouch>>

Next ==
    \/ Tick
    \/ constructor
    \/ \E noteId \in NoteIds, noteContext \in InitContexts :
          handleInit(noteId, noteContext)
    \/ \E message \in Messages, hasContext \in BOOLEAN, noteContext \in PostContexts :
          handleMessage(message, hasContext, noteContext)
    \/ \E call \in inflight, outcome \in AIOutcomes : AIReturns(call, outcome)
    \/ \E role \in Roles, content \in Contents : handleStoreMessage(role, content)
    \/ handleGetHistory
    \/ handleClear
    \/ Alarm

Spec == Init /\ [][Next]_vars

\* a wake-up that is due is eventually delivered
FairSpec == Spec /\ WF_vars(Alarm)

\* ------------------------------------------------------ objects per key
\* The Worker addresses the object of a note by idFromName(noteId); every
\* object has its own this.sessionData and its own this.state.storage.
\* One object handles a request at a time in the model: the variables
\* sessionData, storage, alarm and inflight are those of the object
\* addressed last, and peer holds the object of the other key.
Keys == {"n1", "n2"}

\* the key of the object addressed last
Self == CHOOSE key \in Keys : key # peer.key

KeyedInit ==
    /\ now = 0
    /\ \E n \in SeedLens : storage = [sessionData |-> Null, messages |-> Seed(n)]
    /\ sessionData = Null
    /\ alarm = {}
    /\ inflight = {}
    /\ ops = 0
    /\ response = [op |-> "none", req |-> 0, status |-> 0, body |-> Null]
    /\ lastTouch = 0
    /\ win = Null
    /\ wf = Null
    /\ chat = Null
    /\ pending = Null
    /\ peer = [key |-> "n2", sessionData |-> Null,
               storage |-> [sessionData |-> Null, messages |-> <<>>],
               alarm |-> {}, inflight |-> {}]

\* env.CHAT_SESSIONS.get(env.CHAT_SESSIONS.idFromName(noteId)) for the other
\* key: the next request, or the next alarm, is for that object
Route_SharedSessionData ==
    /\ peer' = [key |-> Self, sessionData |-> sessionData, storage |-> storage,
                alarm |-> alarm, inflight |-> inflight]
    /\ storage' = peer.storage
    /\ alarm' = peer.alarm
    /\ inflight' = peer.inflight
    /\ UNCHANGED <<now, sessionData, ops, response, lastTouch, win, wf, chat, pending>>

Route ==
    /\ peer' = [key |-> Self, sessionData |-> sessionData, storage |-> storage,
                alarm |-> alarm, inflight |-> inflight]
    /\ sessionData' = peer.sessionData
    /\ storage' = peer.storage
    /\ alarm' = peer.alarm
    /\ inflight' = peer.inflight
    /\ UNCHANGED <<now, ops, response, lastTouch, win, wf, chat, pending>>

\* as Next, with the noteId of /init being the name of the object, as
\* handleChat sends it
KeyedNext ==
    \/ Tick
    \/ constructor
    \/ \E noteContext \in InitContexts : handleInit(Self, noteContext)
    \/ \E message \in Messages, hasContext \in BOOLEAN, noteContext \in PostContexts :
          handleMessage(message, hasContext, noteContext)
    \/ \E call \in inflight, outcome \in AIOutcomes : AIReturns(call, outcome)
    \/ \E role \in Roles, content \in Contents : handleStoreMessage(role, content)
    \/ handleGetHistory
    \/ handleClear
    \/ Alarm
    \/ Route

KeyedSpec == KeyedInit /\ [][KeyedNext]_vars

\* --------------------------------------------------------- context window
\* handleMessage from getMessages() to aiMessages, as a function of the
\* stored history, the stored note context and the message of the request.

MaxStored == 13      \* messages in the stored history

\* a text of n characters
Long(n) == [i \in 1..n |-> "x"]

\* a stored history of n messages, the one at longAt (if any) with a content
\* of more than 2000 characters
History(n, longAt) ==
    [i \in 1..n |->
       ChatMessage(IF i % 2 = 1 THEN "user" ELSE "assistant",
                   IF i = longAt THEN Long(ContentLimit + 1)
                   ELSE [j \in 1..i |-> "h"],
                   0)]

WindowContexts ==
    {<<>>, <<"a">>, Long(ContextLimit), Long(ContextLimit + 1)}

WindowMessages == {<<"q">>, Long(ContentLimit), Long(ContentLimit + 1)}

WindowInit ==
    /\ now = 0
    /\ sessionData = Null
    /\ storage = [sessionData |-> Null, messages |-> <<>>]
    /\ alarm = {}
    /\ inflight = {}
    /\ ops = 0
    /\ response = [op |-> "none", req |-> 0, status |-> 0, body |-> Null]
    /\ lastTouch = 0
    /\ wf = Null
    /\ chat = Null
    /\ pending = Null
    /\ peer = Null
    /\ \E n \in 0..MaxStored, longAt \in 0..MaxStored,
          noteContext \in WindowContexts, message \in WindowMessages :
          /\ longAt <= n
          /\ win = [stored |-> History(n, longAt), noteContext |-> noteContext,
                    message |-> message, built |-> FALSE, aiMessages |-> <<>>]

\* messages.push(userMessage), systemPrompt, recentMessages, aiMessages
BuildWindow ==
    /\ ~win.built
    /\ LET messages == Append(win.stored, ChatMessage("user", win.message, now))
       IN  win' = [win EXCEPT !.built = TRUE,
                              !.aiMessages = aiMessages(messages, win.noteContext)]
    /\ UNCHANGED <<now, sessionData, storage, alarm, inflight, ops, response,
                   lastTouch, wf, chat, pending, peer>>

WindowNext == BuildWindow

WindowSpec == WindowInit /\ [][WindowNext]_vars

\* -------------------------------------------------------------- pipelines
\* SummaryWorkflow and QuestionsWorkflow.  A text the model returns is a
\* sequence of tokens: words and spaces of prose, the brackets and commas of
\* a JSON array, and one token for each JSON value of the array (a string, a
\* number, null, or an object with index, type and difficulty).  Arrays are
\* not nested in the texts used here.  A call or an expression that throws
\* yields Threw; any other value v is Ok(v).

Threw == [threw |-> TRUE]
Ok(v) == [threw |-> FALSE, value |-> v]

Open == [t |-> "["]
Close == [t |-> "]"]
Comma == [t |-> ","]
Space == [t |-> " "]
Word(w) == [t |-> "word", w |-> w]
Str(text) == [t |-> "str", s |-> text]
Num == [t |-> "num"]
JNull == [t |-> "null"]
Undefined == [def |-> FALSE]
Def(text) == [def |-> TRUE, s |-> text]
\* index is -1 where the object has no numeric index
Obj(index, type, difficulty) ==
    [t |-> "obj", index |-> index, type |-> type, difficulty |-> difficulty]

IsValue(tok) == tok.t \in {"str", "num", "null", "obj"}

\* String.prototype.match(/\[.*\]/s): from the first "[" to the last "]"
\* after it; <<>> when there is none
JsonArrayMatch(text) ==
    LET opens == {i \in 1..Len(text) : text[i].t = "["}
        first == CHOOSE i \in opens : \A j \in opens : i <= j
        closes == {i \in 1..Len(text) : text[i].t = "]" /\ i > first}
        last == CHOOSE i \in closes : \A j \in closes : i >= j
    IN  IF opens = {} THEN <<>>
        ELSE IF closes = {} THEN <<>>
        ELSE SubSeq(text, first, last)

\* JSON.parse of a text that starts with "[" and ends with "]": the array
\* of its values, or a SyntaxError
JSONparse(text) ==
    LET inner == SubSeq(text, 2, Len(text) - 1)
        n == Len(inner)
    IN  IF n = 0 THEN Ok(<<>>)
        ELSE IF /\ n % 2 = 1
                /\ \A i \in 1..n : IF i % 2 = 1 THEN IsValue(inner[i])
                                   ELSE inner[i].t = ","
             THEN Ok([k \in 1..((n + 1) \div 2) |-> inner[2 * k - 1]])
             ELSE Threw

\* try { body } catch (error) { return fallback }
Catch_Rethrow(body, fallback) == body

Catch(body, fallback) == IF body.threw THEN Ok(fallback) ELSE body

\* String.prototype.toLowerCase, word by word
LowerWord(w) ==
    CASE w = "Advanced" -> "advanced"
      [] w = "Recall" -> "recall"
      [] w = "HARD" -> "hard"
      [] OTHER -> w

toLowerCase(text) ==
    [i \in 1..Len(text) |->
       IF text[i].t = "word" THEN Word(LowerWord(text[i].w)) ELSE text[i]]

\* String.prototype.trim
trim(text) ==
    LET inked == {i \in 1..Len(text) : text[i].t # " "}
        first == CHOOSE i \in inked : \A j \in inked : i <= j
        last == CHOOSE i \in inked : \A j \in inked : i >= j
    IN  IF inked = {} THEN <<>> ELSE SubSeq(text, first, last)

\* what env.AI.run does in a stage: rejects, resolves with nothing, or
\* resolves with an object whose response is a text (<<>> when missing)
StageOutcomes(texts) ==
    {[kind |-> "throw"], [kind |-> "nothing"]}
    \cup {[kind |-> "value", response |-> text] : text \in texts}

\* (await env.AI.run(...)).response
responseOf(outcome) ==
    IF outcome.kind = "value" THEN Ok(outcome.response) ELSE Threw

\* the literals of the two workflows
General == <<Word("General")>>
UnableToGenerate ==
    <<Word("Unable"), Space, Word("to"), Space, Word("generate"), Space, Word("summary.")>>
ErrorGenerating == <<Word("Error"), Space, Word("generating"), Space, Word("summary.")>>
Intermediate == <<Word("intermediate")>>
Levels == {<<Word("beginner")>>, <<Word("intermediate")>>, <<Word("advanced")>>}
Types == {<<Word("recall")>>, <<Word("comprehension")>>, <<Word("application")>>}
Difficulties == {<<Word("easy")>>, <<Word("medium")>>, <<Word("hard")>>}
DefaultType == <<Word("comprehension")>>
DefaultDifficulty == <<Word("medium")>>
EmptyArrayText == <<Open, Close>>

\* response.response || '[]', match, JSON.parse: the body of the try of
\* extractTopics and extractKeyPoints
parseArrayResponse(outcome) ==
    LET r == responseOf(outcome)
    IN  IF r.threw THEN Threw
        ELSE LET text == IF r.value = <<>> THEN EmptyArrayText ELSE r.value
                 match == JsonArrayMatch(text)
             IN  IF match # <<>> THEN JSONparse(match) ELSE Ok(<<>>)

\* SummaryWorkflow.extractTopics
extractTopics_EmptyFallback(outcome) == Catch(parseArrayResponse(outcome), <<>>)

extractTopics(outcome) == Catch(parseArrayResponse(outcome), <<Str(General)>>)

\* SummaryWorkflow.generateSummary
generateSummary_NoFallback(outcome) ==
    LET r == responseOf(outcome)
    IN  Catch(IF r.threw THEN Threw ELSE Ok(r.value), <<>>)

generateSummary(outcome) ==
    LET r == responseOf(outcome)
        body == IF r.threw THEN Threw
                ELSE Ok(IF r.value = <<>> THEN UnableToGenerate ELSE r.value)
    IN  Catch(body, ErrorGenerating)

\* SummaryWorkflow.extractKeyPoints
extractKeyPoints(outcome) == Catch(parseArrayResponse(outcome), <<>>)

\* QuestionsWorkflow.analyzeContentDifficulty
analyzeContentDifficulty_AsAnswered(outcome) ==
    LET r == responseOf(outcome)
        body == IF r.threw THEN Threw
                ELSE Ok(trim(IF r.value = <<>> THEN Intermediate ELSE r.value))
    IN  Catch(body, Intermediate)

analyzeContentDifficulty(outcome) ==
    LET r == responseOf(outcome)
        body == IF r.threw THEN Threw
                ELSE LET level == trim(toLowerCase(IF r.value = <<>> THEN Intermediate
                                                   ELSE r.value))
                     IN  Ok(IF level \in Levels THEN level ELSE Intermediate)
    IN  Catch(body, Intermediate)

\* typeof q === 'string' && q.length > 0
IsNonEmptyString(q) == q.t = "str" /\ Len(q.s) > 0

\* parsed.filter(q => typeof q === 'string' && q.length > 0)
RECURSIVE filterQuestions(_)
filterQuestions(parsed) ==
    IF parsed = <<>> THEN <<>>
    ELSE IF IsNonEmptyString(parsed[1])
         THEN <<parsed[1]>> \o filterQuestions(Tail(parsed))
         ELSE filterQuestions(Tail(parsed))

\* QuestionsWorkflow.generateQuestions
generateQuestions(outcome) ==
    LET r == responseOf(outcome)
        body ==
          IF r.threw THEN Threw
          ELSE LET text == IF r.value = <<>> THEN EmptyArrayText ELSE r.value
                   match == JsonArrayMatch(text)
                   parsed == JSONparse(match)
               IN  IF match = <<>> THEN Ok(<<>>)
                   ELSE IF parsed.threw THEN Threw
                   ELSE Ok(filterQuestions(parsed.value))
    IN  Catch(body, <<>>)

\* QuestionsWorkflow.validateType: type.toLowerCase() throws on a value that
\* is not a string
validateType_Unchecked(type) ==
    IF ~type.def THEN Threw ELSE Ok(trim(toLowerCase(type.s)))

validateType(type) ==
    IF ~type.def THEN Threw
    ELSE LET normalized == trim(toLowerCase(type.s))
         IN  Ok(IF normalized \in Types THEN normalized ELSE DefaultType)

\* QuestionsWorkflow.validateDifficulty
validateDifficulty(difficulty) ==
    IF ~difficulty.def THEN Threw
    ELSE LET normalized == trim(toLowerCase(difficulty.s))
         IN  Ok(IF normalized \in Difficulties THEN normalized ELSE DefaultDifficulty)

\* categories.find(c => c.index === idx) || {comprehension, medium}:
\* the callback reads c.index of each element up to the first hit, and
\* throws on a null element
findCategory_OneBased(categories, idx) ==
    LET stops == {j \in 1..Len(categories) :
                    \/ categories[j].t = "null"
                    \/ (categories[j].t = "obj" /\ categories[j].index = idx + 1)}
        j == CHOOSE i \in stops : \A k \in stops : i <= k
    IN  IF stops = {} THEN Ok(Obj(idx, Def(DefaultType), Def(DefaultDifficulty)))
        ELSE IF categories[j].t = "null" THEN Threw
        ELSE Ok(categories[j])

findCategory(categories, idx) ==
    LET stops == {j \in 1..Len(categories) :
                    \/ categories[j].t = "null"
                    \/ (categories[j].t = "obj" /\ categories[j].index = idx)}
        j == CHOOSE i \in stops : \A k \in stops : i <= k
    IN  IF stops = {} THEN Ok(Obj(idx, Def(DefaultType), Def(DefaultDifficulty)))
        ELSE IF categories[j].t = "null" THEN Threw
        ELSE Ok(categories[j])

\* the default labels of every question
defaultCategories(questions) ==
    [i \in 1..Len(questions) |->
       [question |-> questions[i].s, type |-> DefaultType,
        difficulty |-> DefaultDifficulty]]

\* QuestionsWorkflow.categorizeQuestions, for a non-empty list of questions
categorizeQuestions(questions, outcome) ==
    LET r == responseOf(outcome)
        text == IF r.value = <<>> THEN EmptyArrayText ELSE r.value
        match == JsonArrayMatch(text)
        categories == JSONparse(match)
        category(idx) == findCategory(categories.value, idx)
        type(idx) == validateType(category(idx).value.type)
        difficulty(idx) == validateDifficulty(category(idx).value.difficulty)
        mapThrows ==
          \E i \in 1..Len(questions) :
             \/ category(i - 1).threw
             \/ type(i - 1).threw
             \/ difficulty(i - 1).threw
        mapped ==
          [i \in 1..Len(questions) |->
             [question |-> questions[i].s, type |-> type(i - 1).value,
              difficulty |-> difficulty(i - 1).value]]
        body ==
          IF r.threw THEN Threw
          ELSE IF match = <<>> THEN Ok(defaultCategories(questions))
          ELSE IF categories.threw THEN Threw
          ELSE IF mapThrows THEN Threw
          ELSE Ok(mapped)
    IN  Catch(body, defaultCategories(questions))

\* ------------------------------------------------- inputs of the pipelines
NoteContents == {<<"n">>}
NoteTitles == {<<"t">>}

T1 == Str(<<Word("graphs")>>)
T2 == Str(<<Word("trees")>>)
Q1 == Str(<<Word("What")>>)
Q2 == Str(<<Word("Why")>>)
Q3 == Str(<<Word("How")>>)

\* answers to a stage that asks for a JSON array of strings: no text, prose
\* only, an array inside prose, a malformed array, an array with elements
\* that are not non-empty strings
ListTexts(a, b) ==
    { <<>>,
      <<Word("none")>>,
      <<Word("Here"), Space, Open, a, Comma, b, Close>>,
      <<Open, a, b, Close>>,
      <<Open, a, Comma, Num, Comma, JNull, Comma, Str(<<>>), Close>> }

SummaryTexts == {<<>>, <<Word("Summary")>>}

LevelTexts ==
    {<<>>, <<Word("beginner")>>, <<Space, Word("Advanced"), Space>>, <<Word("expert")>>}

QuestionTexts ==
    ListTexts(Q1, Q2) \cup {<<Open, Q1, Comma, Q2, Comma, Q3, Close>>,
                            <<Open, Num, Comma, Str(<<>>), Close>>}

\* answers to the categorize stage: no text, prose only, malformed, labels
\* for indices 0 and 2 only, labels in other case and outside the vocabulary,
\* a null entry, an entry without type and difficulty
CategoryTexts ==
    { <<>>,
      <<Word("none")>>,
      <<Open, Obj(0, Def(<<Word("recall")>>), Def(<<Word("easy")>>)), Close, Close, Open>>,
      <<Open, Obj(0, Def(<<Word("recall")>>), Def(<<Word("easy")>>)), Comma,
              Obj(2, Def(<<Word("application")>>), Def(<<Word("hard")>>)), Close>>,
      <<Open, Obj(0, Def(<<Space, Word("Recall")>>), Def(<<Word("HARD"), Space>>)), Comma,
              Obj(1, Def(<<Word("essay")>>), Def(<<Word("extreme")>>)), Close>>,
      <<Open, Obj(0, Def(<<Word("recall")>>), Def(<<Word("easy")>>)), Comma,
              JNull, Close>>,
      <<Open, Obj(0, Def(<<Word("recall")>>), Def(<<Word("easy")>>)), Comma,
              Obj(1, Undefined, Undefined), Close>> }

\* ---------------------------------------------------- runs of a pipeline
Call(stage, outcome) == [stage |-> stage, outcome |-> outcome]

PipelineInit ==
    /\ now = 0
    /\ sessionData = Null
    /\ storage = [sessionData |-> Null, messages |-> <<>>]
    /\ alarm = {}
    /\ inflight = {}
    /\ ops = 0
    /\ response = [op |-> "none", req |-> 0, status |-> 0, body |-> Null]
    /\ lastTouch = 0
    /\ win = Null
    /\ chat = Null
    /\ pending = Null
    /\ peer = Null
    /\ \E noteContent \in NoteContents, noteTitle \in NoteTitles :
          \/ wf = [kind |-> "summary", pc |-> "extractTopics",
                   noteContent |-> noteContent, noteTitle |-> noteTitle,
                   calls |-> <<>>]
          \/ wf = [kind |-> "questions", pc |-> "analyzeContentDifficulty",
                   noteContent |-> noteContent, noteTitle |-> noteTitle,
                   calls |-> <<>>]

actor ==
    <<now, sessionData, storage, alarm, inflight, ops, response, lastTouch, win, chat,
      peer>>

session == <<actor, pending>>

\* an exception that leaves a stage leaves run as well
Raise(stage, outcome) ==
    wf' = [kind |-> wf.kind, pc |-> "raised", noteContent |-> wf.noteContent,
           noteTitle |-> wf.noteTitle, calls |-> Append(wf.calls, Call(stage, outcome))]

\* SummaryWorkflow.run, step 1
SummaryExtractTopics(outcome) ==
    /\ wf.kind = "summary" /\ wf.pc = "extractTopics"
    /\ LET topics == extractTopics(outcome)
       IN  IF topics.threw THEN Raise("extractTopics", outcome)
           ELSE wf' = [kind |-> "summary", pc |-> "generateSummary",
                       noteContent |-> wf.noteContent, noteTitle |-> wf.noteTitle,
                       calls |-> Append(wf.calls, Call("extractTopics", outcome)),
                       topics |-> topics.value]
    /\ UNCHANGED session

\* SummaryWorkflow.run, step 2
SummaryGenerateSummary_Retrying(outcome) ==
    /\ wf.kind = "summary" /\ wf.pc = "generateSummary"
    /\ LET summary == generateSummary(outcome)
           once == Append(wf.calls, Call("generateSummary", outcome))
       IN  wf' = [kind |-> "summary", pc |-> "extractKeyPoints",
                  noteContent |-> wf.noteContent, noteTitle |-> wf.noteTitle,
                  calls |-> IF outcome.kind = "throw"
                            THEN Append(once, Call("generateSummary", outcome))
                            ELSE once,
                  topics |-> wf.topics, summary |-> summary.value]
    /\ UNCHANGED session

SummaryGenerateSummary(outcome) ==
    /\ wf.kind = "summary" /\ wf.pc = "generateSummary"
    /\ LET summary == generateSummary(outcome)
       IN  IF summary.threw THEN Raise("generateSummary", outcome)
           ELSE wf' = [kind |-> "summary", pc |-> "extractKeyPoints",
                       noteContent |-> wf.noteContent, noteTitle |-> wf.noteTitle,
                       calls |-> Append(wf.calls, Call("generateSummary", outcome)),
                       topics |-> wf.topics, summary |-> summary.value]
    /\ UNCHANGED session

\* SummaryWorkflow.run, step 3 and the return
SummaryExtractKeyPoints_SharedTopics(outcome) ==
    /\ wf.kind = "summary" /\ wf.pc = "extractKeyPoints"
    /\ LET keyPoints == extractKeyPoints(outcome)
           shared == IF pending # Null /\ "topics" \in DOMAIN pending
                     THEN pending.topics ELSE wf.topics
       IN  wf' = [kind |-> "summary", pc |-> "done",
                  noteContent |-> wf.noteContent, noteTitle |-> wf.noteTitle,
                  calls |-> Append(wf.calls, Call("extractKeyPoints", outcome)),
                  result |-> [summary |-> wf.summary,
                              keyPoints |-> keyPoints.value,
                              topics |-> shared]]
    /\ UNCHANGED session

SummaryExtractKeyPoints(outcome) ==
    /\ wf.kind = "summary" /\ wf.pc = "extractKeyPoints"
    /\ LET keyPoints == extractKeyPoints(outcome)
       IN  IF keyPoints.threw THEN Raise("extractKeyPoints", outcome)
           ELSE wf' = [kind |-> "summary", pc |-> "done",
                       noteContent |-> wf.noteContent, noteTitle |-> wf.noteTitle,
                       calls |-> Append(wf.calls, Call("extractKeyPoints", outcome)),
                       result |-> [summary |-> wf.summary,
                                   keyPoints |-> keyPoints.value,
                                   topics |-> wf.topics]]
    /\ UNCHANGED session

\* QuestionsWorkflow.run, step 1
QuestionsAnalyzeDifficulty(outcome) ==
    /\ wf.kind = "questions" /\ wf.pc = "analyzeContentDifficulty"
    /\ LET difficulty == analyzeContentDifficulty(outcome)
       IN  IF difficulty.threw THEN Raise("analyzeContentDifficulty", outcome)
           ELSE wf' = [kind |-> "questions", pc |-> "generateQuestions",
                       noteContent |-> wf.noteContent, noteTitle |-> wf.noteTitle,
                       calls |-> Append(wf.calls,
                                        Call("analyzeContentDifficulty", outcome)),
                       difficulty |-> difficulty.value]
    /\ UNCHANGED session

\* QuestionsWorkflow.run, step 2; with no questions step 3 returns [] at
\* once and run returns
QuestionsGenerate_AlwaysCategorizes(outcome) ==
    /\ wf.kind = "questions" /\ wf.pc = "generateQuestions"
    /\ LET questions == generateQuestions(outcome)
       IN  wf' = [kind |-> "questions", pc |-> "categorizeQuestions",
                  noteContent |-> wf.noteContent, noteTitle |-> wf.noteTitle,
                  calls |-> Append(wf.calls, Call("generateQuestions", outcome)),
                  difficulty |-> wf.difficulty, questions |-> questions.value]
    /\ UNCHANGED session

QuestionsGenerate(outcome) ==
    /\ wf.kind = "questions" /\ wf.pc = "generateQuestions"
    /\ LET questions == generateQuestions(outcome)
           calls == Append(wf.calls, Call("generateQuestions", outcome))
       IN  IF questions.threw THEN Raise("generateQuestions", outcome)
           ELSE IF Len(questions.value) = 0
           THEN wf' = [kind |-> "questions", pc |-> "done",
                       noteContent |-> wf.noteContent, noteTitle |-> wf.noteTitle,
                       calls |-> calls,
                       result |-> [questions |-> <<>>, totalCount |-> 0]]
           ELSE wf' = [kind |-> "questions", pc |-> "categorizeQuestions",
                       noteContent |-> wf.noteContent, noteTitle |-> wf.noteTitle,
                       calls |-> calls, difficulty |-> wf.difficulty,
                       questions |-> questions.value]
    /\ UNCHANGED session

\* QuestionsWorkflow.run, step 3 and the return
QuestionsCategorize(outcome) ==
    /\ wf.kind = "questions" /\ wf.pc = "categorizeQuestions"
    /\ LET categorizedQuestions == categorizeQuestions(wf.questions, outcome)
       IN  IF categorizedQuestions.threw THEN Raise("categorizeQuestions", outcome)
           ELSE wf' = [kind |-> "questions", pc |-> "done",
                       noteContent |-> wf.noteContent, noteTitle |-> wf.noteTitle,
                       calls |-> Append(wf.calls, Call("categorizeQuestions", outcome)),
                       result |-> [questions |-> categorizedQuestions.value,
                                   totalCount |-> Len(categorizedQuestions.value)]]
    /\ UNCHANGED session

PipelineNext ==
    \/ \E outcome \in StageOutcomes(ListTexts(T1, T2)) : SummaryExtractTopics(outcome)
    \/ \E outcome \in StageOutcomes(SummaryTexts) : SummaryGenerateSummary(outcome)
    \/ \E outcome \in StageOutcomes(ListTexts(T1, T2)) : SummaryExtractKeyPoints(outcome)
    \/ \E outcome \in StageOutcomes(LevelTexts) : QuestionsAnalyzeDifficulty(outcome)
    \/ \E outcome \in StageOutcomes(QuestionTexts) : QuestionsGenerate(outcome)
    \/ \E outcome \in StageOutcomes(CategoryTexts) : QuestionsCategorize(outcome)

\* every call of env.AI.run settles
PipelineSpec == PipelineInit /\ [][PipelineNext]_vars /\ WF_vars(PipelineNext)

\* ------------------------------------------------------- concurrent runs
\* handleGenerateSummary and handleGenerateQuestions construct a new
\* workflow object for every request, and requests for different notes run
\* interleaved at their awaits: while one run executes, the other is
\* suspended.
OtherContents == {<<"m">>}

NewRun(kind, noteContent, noteTitle) ==
    [kind |-> kind,
     pc |-> IF kind = "summary" THEN "extractTopics" ELSE "analyzeContentDifficulty",
     noteContent |-> noteContent, noteTitle |-> noteTitle, calls |-> <<>>]

ConcurrentInit ==
    /\ now = 0
    /\ sessionData = Null
    /\ storage = [sessionData |-> Null, messages |-> <<>>]
    /\ alarm = {}
    /\ inflight = {}
    /\ ops = 0
    /\ response = [op |-> "none", req |-> 0, status |-> 0, body |-> Null]
    /\ lastTouch = 0
    /\ win = Null
    /\ chat = Null
    /\ peer = Null
    /\ \E kind \in {"summary", "questions"},
          noteContent \in NoteContents, noteTitle \in NoteTitles :
          wf = NewRun(kind, noteContent, noteTitle)
    /\ \E kind \in {"summary", "questions"},
          noteContent \in NoteContents \cup OtherContents, noteTitle \in NoteTitles :
          pending = NewRun(kind, noteContent, noteTitle)

\* the running request reaches an await and the other one is resumed
Resume ==
    /\ wf' = pending
    /\ pending' = wf
    /\ UNCHANGED actor

ConcurrentNext == PipelineNext \/ Resume

ConcurrentSpec == ConcurrentInit /\ [][ConcurrentNext]_vars

\* ================================================================ claims

\* the n most recent entries of s, in order, written index by index
LastN(s, n) ==
    LET k == IF Len(s) < n THEN Len(s) ELSE n
    IN  [i \in 1..k |-> s[Len(s) - k + i]]

Last(s) == s[Len(s)]

\* the reply handleMessage hands back for what env.AI.run resolved with
ReplyFor(aiResponse) == IF aiResponse = <<>> THEN SorryReply ELSE aiResponse

Throw == [kind |-> "throw"]
Value(r) == [kind |-> "value", response |-> r]

\* a /message request is dispatched
PostMessageStep ==
    \E message \in Messages, hasContext \in BOOLEAN, noteContext \in PostContexts :
        handleMessage(message, hasContext, noteContext)

\* C1: in every reachable state the persisted message sequence holds at
\* most 50 entries.
C1_AtMostFifty == Len(storage.messages) <= MaxMessages

\* a full history whose oldest entry is no longer the oldest seed message:
\* an append has overflowed and was cut back to 50
C1_Witness ==
    /\ Len(storage.messages) = MaxMessages
    /\ storage.messages[1] # Seed(1)[1]
    /\ response.op = "store"
    /\ response.status = 200

C3_NoLostUpdate ==
    [][ \A call \in inflight, r \in Replies :
           AIReturns(call, Value(r))
           => storage.messages = SubSeq(call.messages, 1, Len(call.messages) - 1)
      ]_vars

\* C4: PostMessage on a key on which Initialize was never called fails with
\* "Session not initialized" (400), leaves sessionData, messages and the
\* pending wake-up as they were, and does not call the Model Invoker.
C4_UninitializedPostRejected ==
    [][ (PostMessageStep /\ storage.sessionData = Null)
        => /\ response'.op = "message"
           /\ response'.status = 400
           /\ response'.body = [error |-> "Session not initialized"]
           /\ storage' = storage
           /\ sessionData' = sessionData
           /\ alarm' = alarm
           /\ inflight' = inflight
      ]_vars

\* a PostMessage was rejected on a key that holds messages but no session
C4_Witness ==
    /\ response.op = "message"
    /\ response.status = 400
    /\ storage.sessionData = Null
    /\ storage.messages # <<>>

Uninterrupted(call) == ops = call.req /\ response.req = call.prior

\* C6: a PostMessage whose Model Invoker call succeeds with no other
\* operation running since it began persists the last 50 entries of
\* (persisted sequence, user message, assistant reply), sets lastActivity to
\* the current time in memory and in storage, and returns the reply with a
\* history equal to what it persisted.
C6_SuccessfulPost ==
    [][ \A call \in inflight, r \in Replies :
           (AIReturns(call, Value(r)) /\ Uninterrupted(call))
           => /\ storage'.messages =
                   LastN(storage.messages
                           \o <<Last(call.messages),
                                ChatMessage("assistant", ReplyFor(r), now)>>,
                         MaxMessages)
              /\ Last(call.messages).role = "user"
              /\ sessionData'.lastActivity = now
              /\ storage'.sessionData = sessionData'
              /\ response'.status = 200
              /\ response'.body.reply = ReplyFor(r)
              /\ response'.body.history = storage'.messages
      ]_vars

\* the latest request was a PostMessage that succeeded, on a history that
\* had to be cut
C6_Witness ==
    /\ response.op = "message"
    /\ response.status = 200
    /\ response.req = ops
    /\ inflight = {}
    /\ response.body.history = storage.messages
    /\ Len(storage.messages) = MaxMessages
    /\ storage.messages[MaxMessages - 2] = Seed(MaxMessages - 1)[MaxMessages - 1]
    /\ sessionData.lastActivity = now

\* the alarm handler runs
AlarmDue(early) ==
    /\ Alarm
    /\ sessionData # Null
    /\ (now - sessionData.lastActivity < twentyFourHours) = early

\* C7: OnIdleTimeout on an initialized session with now - lastActivity < 24h
\* deletes nothing and leaves exactly one wake-up, at lastActivity + 24h.
C7_EarlyAlarmReschedules ==
    [][ AlarmDue(TRUE)
        => /\ storage' = storage
           /\ sessionData' = sessionData
           /\ alarm' = {sessionData.lastActivity + twentyFourHours}
      ]_vars

\* the alarm has just run early on a session with messages
C7_Witness ==
    /\ response.op = "alarm"
    /\ sessionData # Null
    /\ now - sessionData.lastActivity < twentyFourHours
    /\ storage.messages # <<>>
    /\ alarm = {sessionData.lastActivity + twentyFourHours}

\* C8: OnIdleTimeout on an initialized session with now - lastActivity >= 24h
\* deletes the message sequence and leaves SessionState as it was, in memory
\* and in storage.
C8_ExpiryKeepsSessionState ==
    [][ AlarmDue(FALSE)
        => /\ storage'.messages = <<>>
           /\ storage'.sessionData = storage.sessionData
           /\ sessionData' = sessionData
           /\ storage'.sessionData # Null
      ]_vars

\* the alarm has just run after 24h of inactivity
C8_Witness ==
    /\ response.op = "alarm"
    /\ sessionData # Null
    /\ storage.sessionData = sessionData
    /\ now - sessionData.lastActivity >= twentyFourHours
    /\ storage.messages = <<>>
    /\ alarm = {}

\* C9: whenever SessionState is present exactly one wake-up is pending.
C9_ExactlyOneWakeUp ==
    sessionData # Null => Cardinality(alarm) = 1

\* 24 hours have passed since the last Initialize, PostMessage or
\* StoreMessage
Idle24 == now - lastTouch >= twentyFourHours

\* C10: a non-empty history that has seen no Initialize, PostMessage or
\* StoreMessage for 24 hours is eventually deleted (or the session is used
\* again), given that a wake-up that is due eventually fires.
C10_EventuallyCleanedUp ==
    (storage.messages # <<>> /\ Idle24) ~> (storage.messages = <<>> \/ ~Idle24)

\* the alarm handler has just deleted the history of an idle session
JustExpired == response.op = "alarm" /\ alarm = {}

\* C11 as stated: after an idle-timeout expiry SessionState is absent, as on
\* a key that was never initialized.
C11_SessionStateDroppedOnExpiry ==
    JustExpired => (sessionData = Null /\ storage.sessionData = Null)

\* C11 amended: an idle-timeout expiry leaves SessionState present, in
\* memory and in storage (once present it is never removed), so a
\* PostMessage issued after the expiry and before a new Initialize is
\* accepted: it is not answered with "Session not initialized" and goes on to
\* call the Model Invoker.
C11_SessionStateSurvivesExpiry ==
    [][ /\ sessionData # Null => sessionData' # Null
        /\ storage.sessionData # Null => storage'.sessionData # Null
        /\ JustExpired => (sessionData # Null /\ storage.sessionData # Null)
        /\ (PostMessageStep /\ JustExpired)
           => /\ response' = response
              /\ \E call \in inflight' : call \notin inflight /\ call.req = ops + 1
      ]_vars

\* a PostMessage is waiting on the Model Invoker, dispatched right after the
\* expiry
C11_Witness ==
    /\ JustExpired
    /\ storage.sessionData # Null
    /\ \E call \in inflight : call.prior = response.req /\ call.req = ops

\* C12: Clear empties the history, so a GetHistory right after it returns
\* the empty sequence; Clear leaves SessionState (in memory and in storage)
\* and the pending wake-up as they were, and an initialized session accepts
\* a PostMessage right after it.
C12_ClearKeepsSession ==
    [][ /\ handleClear
           => /\ storage'.messages = <<>>
              /\ storage'.sessionData = storage.sessionData
              /\ sessionData' = sessionData
              /\ alarm' = alarm
              /\ response'.status = 200
        /\ (handleGetHistory /\ response.op = "clear" /\ response.req = ops)
           => response'.body.messages = <<>>
        /\ (PostMessageStep /\ response.op = "clear" /\ response.req = ops
                            /\ storage.sessionData # Null)
           => \E call \in inflight' : call \notin inflight
      ]_vars

\* Clear has just emptied a history that a waiting PostMessage had read
\* non-empty, on an initialized session with its wake-up pending
C12_Witness ==
    /\ response.op = "clear"
    /\ response.req = ops
    /\ storage.messages = <<>>
    /\ storage.sessionData # Null
    /\ alarm # {}
    /\ \E call \in inflight : Len(call.messages) > 1

\* C13: StoreMessage with an empty or missing role or content fails with
\* "Missing role or content" (400) and leaves messages, SessionState and the
\* pending wake-up unchanged.
C13_InvalidStoreRejected ==
    [][ \A role \in Roles, content \in Contents :
           (handleStoreMessage(role, content) /\ (role = "" \/ content = <<>>))
           => /\ response'.op = "store"
              /\ response'.status = 400
              /\ response'.body = [error |-> "Missing role or content"]
              /\ storage' = storage
              /\ sessionData' = sessionData
              /\ alarm' = alarm
      ]_vars

\* a StoreMessage was rejected on an initialized session that holds messages
C13_Witness ==
    /\ response.op = "store"
    /\ response.status = 400
    /\ storage.messages # <<>>
    /\ storage.sessionData # Null

\* C14: StoreMessage with non-empty role and content succeeds with or
\* without a session: the history becomes the last 50 of (history, one
\* message with that role and content), the Model Invoker is not called,
\* lastActivity is refreshed exactly when SessionState exists, and neither
\* SessionState nor a wake-up is created.
C14_StoreAppendsOne ==
    [][ \A role \in Roles, content \in Contents :
           (handleStoreMessage(role, content) /\ role # "" /\ content # <<>>)
           => /\ response'.status = 200
              /\ storage'.messages =
                   LastN(Append(storage.messages,
                                [role |-> role, content |-> content,
                                 timestamp |-> now]),
                         MaxMessages)
              /\ inflight' = inflight
              /\ alarm' = alarm
              /\ (sessionData = Null)
                 => (sessionData' = Null /\ storage'.sessionData = storage.sessionData)
              /\ (sessionData # Null)
                 => /\ sessionData' = [sessionData EXCEPT !.lastActivity = now]
                    /\ storage'.sessionData = sessionData'
      ]_vars

\* a StoreMessage has just succeeded on a key with no session and no
\* wake-up
C14_Witness ==
    /\ response.op = "store"
    /\ response.status = 200
    /\ response.req = ops
    /\ sessionData = Null
    /\ storage.sessionData = Null
    /\ alarm = {}
    /\ Last(storage.messages) = [role |-> "assistant", content |-> <<"w">>,
                                 timestamp |-> now]

\* C15: Initialize(noteId, noteContext) at time t answers success and leaves
\* SessionState = {noteId, noteContext, lastActivity = t}, in memory and in
\* storage, with the wake-up at t + 24h as the only one pending.
C15_InitializeSetsState ==
    [][ \A noteId \in NoteIds, noteContext \in InitContexts :
           handleInit(noteId, noteContext)
           => /\ sessionData' = [noteId |-> noteId, noteContext |-> noteContext,
                                 lastActivity |-> now]
              /\ storage'.sessionData = sessionData'
              /\ alarm' = {now + twentyFourHours}
              /\ response'.status = 200
              /\ response'.body = [success |-> TRUE]
      ]_vars

\* Initialize has just run at t = 1 on a session initialized at t = 0 (a
\* PostMessage of that session is still waiting): the wake-up of the first
\* Initialize has been replaced
C15_Witness ==
    /\ response.op = "init"
    /\ response.req = ops
    /\ now = 1
    /\ inflight # {}
    /\ sessionData.lastActivity = 1
    /\ alarm = {1 + twentyFourHours}

\* Initialize(noteId, noteContext) was the last thing to run, at this very
\* instant
JustInitialized(noteId, noteContext) ==
    /\ response.op = "init"
    /\ response.req = ops
    /\ sessionData = [noteId |-> noteId, noteContext |-> noteContext,
                      lastActivity |-> now]

\* C16: Initialize never changes the message sequence, and repeating it with
\* the same arguments at the same time changes nothing in SessionState,
\* messages or the pending wake-up.
C16_InitializeIdempotent ==
    [][ \A noteId \in NoteIds, noteContext \in InitContexts :
           /\ handleInit(noteId, noteContext)
              => storage'.messages = storage.messages
           /\ (handleInit(noteId, noteContext) /\ JustInitialized(noteId, noteContext))
              => /\ sessionData' = sessionData
                 /\ storage' = storage
                 /\ alarm' = alarm
      ]_vars

\* Initialize has run again on an initialized session that holds messages
C16_Witness ==
    /\ \E noteId \in NoteIds, noteContext \in InitContexts :
          JustInitialized(noteId, noteContext)
    /\ response.req >= 2
    /\ Len(storage.messages) = MaxMessages - 1
    /\ \E call \in inflight : call.req < response.req

\* C18: GetHistory answers 200 with exactly the persisted message sequence
\* and changes neither messages nor SessionState nor the pending wake-up.
C18_GetHistoryReadsOnly ==
    [][ handleGetHistory
        => /\ response'.op = "history"
           /\ response'.status = 200
           /\ response'.body = [messages |-> storage.messages]
           /\ storage' = storage
           /\ sessionData' = sessionData
           /\ alarm' = alarm
      ]_vars

\* GetHistory has just returned the history of an initialized session some
\* time after its last activity
C18_Witness ==
    /\ response.op = "history"
    /\ response.req = ops
    /\ response.body.messages = storage.messages
    /\ storage.messages # <<>>
    /\ sessionData # Null
    /\ now > sessionData.lastActivity

\* the first n entries of s, written index by index
FirstN(s, n) ==
    LET k == IF Len(s) < n THEN Len(s) ELSE n
    IN  [i \in 1..k |-> s[i]]

\* C17: the context window sent to the Model Invoker is one system message
\* carrying the note context cut to 4000 characters, followed by the most
\* recent min(10, n) messages of the history that ends with the user message
\* just appended, in order, with their roles and with each content cut to
\* 2000 characters.
C17_ContextWindow ==
    (win # Null /\ win.built) =>
      LET history == Append(win.stored, [role |-> "user", content |-> win.message,
                                         timestamp |-> now])
          n == Len(history)
          k == IF n < RecentWindow THEN n ELSE RecentWindow
          w == win.aiMessages
      IN  /\ Len(w) = 1 + k
          /\ w[1] = [role |-> "system",
                     content |-> PromptHead \o FirstN(win.noteContext, ContextLimit)
                                            \o PromptTail]
          /\ \A i \in 1..k :
                /\ w[1 + i].role = history[n - k + i].role
                /\ w[1 + i].content = FirstN(history[n - k + i].content, ContentLimit)
                /\ Len(w[1 + i].content) <= ContentLimit
          /\ w[1 + k].role = "user"

\* a window built over 12 stored messages with a note context of more than
\* 4000 characters: it holds the system message and the last 10 stored
\* messages, one of which was cut to 2000 characters
C17_Witness ==
    /\ win # Null
    /\ win.built
    /\ Len(win.stored) = 11
    /\ Len(win.aiMessages) = 11
    /\ Len(win.noteContext) > ContextLimit
    /\ Len(win.aiMessages[1].content) = Len(PromptHead) + ContextLimit + Len(PromptTail)
    /\ \E i \in 2..10 :
          /\ Len(win.stored[i + 1].content) > ContentLimit
          /\ Len(win.aiMessages[i].content) = ContentLimit

\* a finished run of the summary pipeline in which env.AI.run rejected at
\* every stage
SummaryAllCallsFailed ==
    /\ wf.kind = "summary"
    /\ wf.pc = "done"
    /\ Len(wf.calls) = 3
    /\ \A i \in 1..3 : wf.calls[i].outcome.kind = "throw"

\* C19 as stated: when the Model Invoker fails on every call, the summary
\* pipeline returns the non-empty error-marker summary with keyPoints and
\* topics both empty.
C19_AllEmptyOnTotalFailure ==
    SummaryAllCallsFailed =>
       /\ wf.result.summary = ErrorGenerating
       /\ Len(wf.result.summary) > 0
       /\ wf.result.keyPoints = <<>>
       /\ wf.result.topics = <<>>

\* C19 amended: when the Model Invoker fails on every call, the summary
\* pipeline returns the non-empty error-marker summary and empty keyPoints,
\* and topics is the single default topic 'General'.
C19_DefaultTopicOnTotalFailure ==
    SummaryAllCallsFailed =>
       /\ wf.result.summary = ErrorGenerating
       /\ Len(wf.result.summary) > 0
       /\ wf.result.keyPoints = <<>>
       /\ wf.result.topics = <<Str(General)>>

\* the summary pipeline has returned after three rejected calls
C19_Witness ==
    /\ SummaryAllCallsFailed
    /\ [i \in 1..3 |-> wf.calls[i].stage]
         = <<"extractTopics", "generateSummary", "extractKeyPoints">>
    /\ Len(wf.result.topics) = 1

\* C20: both pipelines are total: whatever the Model Invoker does at each
\* stage (rejects, resolves with nothing or with no text, with prose only,
\* with malformed JSON, with an array holding null entries or entries
\* without type and difficulty), no exception leaves run, and run finishes
\* with a result.
C20_PipelinesTotal ==
    /\ [](wf.pc # "raised")
    /\ <>(wf.pc = "done")

\* the questions pipeline has returned labelled questions although the
\* summary of labels held a null entry or an entry without type
C20_Witness ==
    /\ wf.kind = "questions"
    /\ wf.pc = "done"
    /\ Len(wf.calls) = 3
    /\ wf.calls[3].outcome.kind = "value"
    /\ \E i \in 1..Len(wf.calls[3].outcome.response) :
          LET tok == wf.calls[3].outcome.response[i]
          IN  \/ tok.t = "null"
              \/ (tok.t = "obj" /\ ~tok.type.def)
    /\ wf.result.totalCount = Len(wf.result.questions)
    /\ wf.result.totalCount > 0

\* the categorization response has no entry with index idx
NoEntry(outcome, idx) ==
    \/ outcome.kind # "value"
    \/ ~\E j \in 1..Len(outcome.response) :
          /\ outcome.response[j].t = "obj"
          /\ outcome.response[j].index = idx

\* labels for indices 0 and 2 only
CoversZeroAndTwo ==
    <<Open, Obj(0, Def(<<Word("recall")>>), Def(<<Word("easy")>>)), Comma,
            Obj(2, Def(<<Word("application")>>), Def(<<Word("hard")>>)), Close>>

\* C21: the questions pipeline returns one StudyQuestion per generated
\* question, in the same order and with the same text, totalCount is that
\* length, and every position whose index has no entry in the
\* categorization response carries (comprehension, medium).
C21_OnePerQuestion ==
    [][\A outcome \in StageOutcomes(CategoryTexts) :
         QuestionsCategorize(outcome) =>
            LET generated == wf.questions
                result == wf'.result
            IN  /\ wf'.pc = "done"
                /\ Len(result.questions) = Len(generated)
                /\ result.totalCount = Len(generated)
                /\ \A i \in 1..Len(generated) :
                      /\ result.questions[i].question = generated[i].s
                      /\ NoEntry(outcome, i - 1) =>
                            /\ result.questions[i].type = DefaultType
                            /\ result.questions[i].difficulty = DefaultDifficulty]_vars

\* three generated questions, labels for indices 0 and 2: the result has
\* three entries, the second with the default pair, the others as labelled
C21_Witness ==
    /\ wf.kind = "questions"
    /\ wf.pc = "done"
    /\ Len(wf.calls) = 3
    /\ wf.calls[3].outcome = [kind |-> "value", response |-> CoversZeroAndTwo]
    /\ wf.result.totalCount = 3
    /\ [i \in 1..3 |-> wf.result.questions[i].question] = <<Q1.s, Q2.s, Q3.s>>
    /\ wf.result.questions[1].type = <<Word("recall")>>
    /\ wf.result.questions[2].type = DefaultType
    /\ wf.result.questions[2].difficulty = DefaultDifficulty
    /\ wf.result.questions[3].difficulty = <<Word("hard")>>

\* C22: every StudyQuestion the questions pipeline returns has its type in
\* {recall, comprehension, application} and its difficulty in {easy,
\* medium, hard}; a label outside the vocabulary after lower-casing and
\* trimming becomes comprehension or medium, and is no error.
C22_LabelsInVocabulary ==
    (wf.kind = "questions" /\ wf.pc = "done") =>
       \A i \in 1..Len(wf.result.questions) :
          /\ wf.result.questions[i].type \in Types
          /\ wf.result.questions[i].difficulty \in Difficulties

\* the response labelled question 0 with ' Recall' and 'HARD ' and question
\* 1 with 'essay' and 'extreme': the first became (recall, hard), the
\* second (comprehension, medium)
C22_Witness ==
    /\ wf.kind = "questions"
    /\ wf.pc = "done"
    /\ Len(wf.calls) = 3
    /\ wf.calls[3].outcome.kind = "value"
    /\ \E j \in 1..Len(wf.calls[3].outcome.response) :
          LET tok == wf.calls[3].outcome.response[j]
          IN  /\ tok.t = "obj"
              /\ tok.index = 1
              /\ tok.type = Def(<<Word("essay")>>)
    /\ wf.result.totalCount >= 2
    /\ wf.result.questions[1].type = <<Word("recall")>>
    /\ wf.result.questions[1].difficulty = <<Word("hard")>>
    /\ wf.result.questions[2].type = DefaultType
    /\ wf.result.questions[2].difficulty = DefaultDifficulty

\* the stages of the calls made so far, in the order of the calls
Stages == [i \in 1..Len(wf.calls) |-> wf.calls[i].stage]

SummaryStages == <<"extractTopics", "generateSummary", "extractKeyPoints">>
QuestionsStages == <<"analyzeContentDifficulty", "generateQuestions", "categorizeQuestions">>

\* the stage a run waits for, as a position in its order of stages
Position(order) ==
    CHOOSE k \in 1..4 : IF wf.pc = "done" THEN k = 4 ELSE k <= 3 /\ order[k] = wf.pc

\* C29: a run makes exactly one call per executed stage, in stage order and
\* one after the other, and never repeats a failed call: the summary
\* pipeline ends with exactly the three calls topics, summary, key points;
\* the questions pipeline ends with its three calls, or with exactly two
\* when generate-questions yielded no questions.
C29_OneCallPerStage ==
    /\ wf.kind = "summary" =>
          /\ Stages = SubSeq(SummaryStages, 1, Len(wf.calls))
          /\ Len(wf.calls) = Position(SummaryStages) - 1
    /\ wf.kind = "questions" =>
          /\ Stages = SubSeq(QuestionsStages, 1, Len(wf.calls))
          /\ wf.pc # "done" => Len(wf.calls) = Position(QuestionsStages) - 1
          /\ wf.pc = "done" =>
                Len(wf.calls) = IF generateQuestions(wf.calls[2].outcome).value = <<>>
                                THEN 2 ELSE 3

\* a summary run that has returned after its second call was rejected
C29_Witness ==
    /\ wf.kind = "summary"
    /\ wf.pc = "done"
    /\ Stages = SummaryStages
    /\ wf.calls[2].outcome.kind = "throw"

\* C30: when generate-questions yields no questions (the call failed, the
\* text held no JSON array, the array did not parse, or it held no
\* non-empty string), the categorize stage makes no call and the pipeline
\* returns an empty list with totalCount 0.
C30_NoQuestionsShortCircuit ==
    [][\A outcome \in StageOutcomes(QuestionTexts) :
         (QuestionsGenerate(outcome) /\ generateQuestions(outcome).value = <<>>) =>
            /\ wf'.pc = "done"
            /\ Len(wf'.calls) = 2
            /\ wf'.result = [questions |-> <<>>, totalCount |-> 0]]_vars

\* the questions pipeline has returned after two calls, the second of which
\* answered with an array that holds no non-empty string
C30_Witness ==
    /\ wf.kind = "questions"
    /\ wf.pc = "done"
    /\ Len(wf.calls) = 2
    /\ wf.calls[2].outcome = [kind |-> "value",
                              response |-> <<Open, Num, Comma, Str(<<>>), Close>>]
    /\ wf.result.totalCount = 0
    /\ wf.result.questions = <<>>

\* the last operation deleted the message sequence: Clear, or OnIdleTimeout
\* on an expired session
JustDeleted == response.op = "clear" \/ JustExpired

\* C27: once Clear, or the deletion by OnIdleTimeout, has completed, no
\* message persisted before it is in the history again, also when a
\* PostMessage that read the history before the deletion completes after it.
C27_DeletedStaysDeleted ==
    [][\A call \in inflight, outcome \in AIOutcomes :
         (AIReturns(call, outcome) /\ JustDeleted /\ response.req > call.req) =>
            \A i \in 1..(Len(call.messages) - 1) :
               \A j \in 1..Len(storage'.messages) :
                  storage'.messages[j] # call.messages[i]]_vars

\* C28: a completion of the Model Invoker with no text ends PostMessage as
\* a raised error does: with the error response, and with no assistant
\* message appended to the persisted history.
C28_NoTextIsFailure ==
    [][\A call \in inflight :
         AIReturns(call, Value(<<>>)) =>
            /\ response'.status = 500
            /\ response'.body = [error |-> "AI request failed"]
            /\ storage'.messages = storage.messages]_vars

\* C24: conversational state survives a restart: whenever no operation is
\* in flight the SessionState in memory equals the persisted sessionData
\* record, so constructing the object again from storage changes nothing.
C24_SurvivesRestart ==
    /\ [](inflight = {} => sessionData = storage.sessionData)
    /\ [][constructor => UNCHANGED vars]_vars

\* a session whose lastActivity was refreshed by a store after its
\* initialization, at rest
C24_Witness ==
    /\ inflight = {}
    /\ sessionData # Null
    /\ response.op = "store"
    /\ response.status = 200
    /\ sessionData.lastActivity > 0
    /\ storage.sessionData.lastActivity = sessionData.lastActivity
    /\ ENABLED constructor

\* what the object answers to a PostMessage tells failure from success: an
\* error and no reply, or a reply that is not empty
ActorTellsFailure ==
    response.op = "message" =>
       /\ response.status # 200 =>
             /\ "error" \in DOMAIN response.body
             /\ "reply" \notin DOMAIN response.body
       /\ response.status = 200 => Len(response.body.reply) > 0

\* C23: a failed PostMessage yields an error outcome with no reply, a
\* successful one always a reply, and what the chat request handler returns
\* to its own caller keeps the distinction: an error outcome for the
\* failure, the reply for the success.
C23_FailureDistinguishable ==
    /\ ActorTellsFailure
    /\ response.op = "message" =>
          /\ response.status = 500 => chat.status # 200
          /\ response.status = 200 =>
                /\ chat.status = 200
                /\ chat.body.reply = response.body.reply

\* what the code computes from the answers a run received, and from nothing
\* else
ResultOf(run) ==
    IF run.kind = "summary"
    THEN [summary |-> generateSummary(run.calls[2].outcome).value,
          keyPoints |-> extractKeyPoints(run.calls[3].outcome).value,
          topics |-> extractTopics(run.calls[1].outcome).value]
    ELSE LET questions == generateQuestions(run.calls[2].outcome).value
             categorized == categorizeQuestions(questions, run.calls[3].outcome).value
         IN  IF questions = <<>> THEN [questions |-> <<>>, totalCount |-> 0]
             ELSE [questions |-> categorized, totalCount |-> Len(categorized)]

Parked == [key |-> Self, sessionData |-> sessionData, storage |-> storage,
           alarm |-> alarm, inflight |-> inflight]

\* C26: session state is scoped per key: an operation on the session of one
\* note, OnIdleTimeout included, leaves the SessionState, the message
\* sequence and the pending wake-up of the session of the other note as
\* they were, and the other session is found so when it is addressed next.
C26_ScopedPerKey ==
    [][IF peer'.key = peer.key
       THEN peer' = peer
       ELSE /\ sessionData' = peer.sessionData
            /\ storage' = peer.storage
            /\ alarm' = peer.alarm
            /\ inflight' = peer.inflight
            /\ peer' = Parked]_vars

\* both sessions are initialized, each under its own noteId, the session of
\* this key has just stored a message and that of the other key holds none
C26_Witness ==
    /\ sessionData # Null
    /\ sessionData.noteId = Self
    /\ peer.sessionData # Null
    /\ peer.sessionData.noteId = peer.key
    /\ response.op = "store"
    /\ response.status = 200
    /\ Len(storage.messages) = 1
    /\ peer.storage.messages = <<>>
    /\ peer.alarm # {}

\* the text a stage works on: response.response || '[]'
ArrayText(outcome) == IF outcome.response = <<>> THEN EmptyArrayText ELSE outcome.response

\* the three failures of a stage that asks for a JSON array: the call
\* failed, the answer holds no JSON array, the matched text does not parse
CallFailed(outcome) == outcome.kind # "value"
NoArray(outcome) == outcome.kind = "value" /\ JsonArrayMatch(ArrayText(outcome)) = <<>>
ParseThrows(outcome) ==
    /\ outcome.kind = "value"
    /\ JsonArrayMatch(ArrayText(outcome)) # <<>>
    /\ JSONparse(JsonArrayMatch(ArrayText(outcome))).threw

\* C31: the extract-topics stage returns the single default topic in each
\* of its three failure cases: no JSON array in the answer, a parse error,
\* a failed call.
C31_OneTopicsFallback ==
    [][\A outcome \in StageOutcomes(ListTexts(T1, T2)) :
         (/\ SummaryExtractTopics(outcome)
          /\ (CallFailed(outcome) \/ NoArray(outcome) \/ ParseThrows(outcome)))
         => wf'.topics = <<Str(General)>>]_vars

\* C32: every element of topics and of keyPoints in a SummaryResult is a
\* non-empty text: numbers, null, objects and empty strings of the parsed
\* array are filtered out.
C32_OnlyNonEmptyTexts ==
    (wf.kind = "summary" /\ wf.pc = "done") =>
       /\ \A i \in 1..Len(wf.result.topics) : IsNonEmptyString(wf.result.topics[i])
       /\ \A i \in 1..Len(wf.result.keyPoints) : IsNonEmptyString(wf.result.keyPoints[i])

\* the entries of the categorization answer, when it parses
Entries(outcome) ==
    IF CallFailed(outcome) \/ NoArray(outcome) \/ ParseThrows(outcome) THEN <<>>
    ELSE JSONparse(JsonArrayMatch(ArrayText(outcome))).value

\* the categorization answer has an entry for position idx whose type and
\* difficulty are in the vocabulary after lower-casing and trimming
WellLabelled(outcome, idx, type, difficulty) ==
    \E j \in 1..Len(Entries(outcome)) :
       LET entry == Entries(outcome)[j]
       IN  /\ entry.t = "obj"
           /\ entry.index = idx
           /\ \A k \in 1..(j - 1) :
                 ~(Entries(outcome)[k].t = "obj" /\ Entries(outcome)[k].index = idx)
           /\ entry.type.def /\ entry.difficulty.def
           /\ trim(toLowerCase(entry.type.s)) = type
           /\ trim(toLowerCase(entry.difficulty.s)) = difficulty

\* C33: each question is labelled by its own position only: a question whose
\* own entry has a type and a difficulty of the vocabulary receives exactly
\* these, whatever the entries of the other positions are.
C33_LabelledByOwnEntry ==
    [][\A outcome \in StageOutcomes(CategoryTexts) :
         QuestionsCategorize(outcome) =>
            \A i \in 1..Len(wf.questions) :
               \A type \in Types, difficulty \in Difficulties :
                  WellLabelled(outcome, i - 1, type, difficulty) =>
                     /\ wf'.result.questions[i].type = type
                     /\ wf'.result.questions[i].difficulty = difficulty]_vars

\* C34: the analyze-difficulty stage always returns beginner, intermediate
\* or advanced: the answer lower-cased and trimmed when that is one of the
\* three, and intermediate for any other text, a missing text or a failed
\* call.
C34_DifficultyInVocabulary ==
    [][\A outcome \in StageOutcomes(LevelTexts) :
         QuestionsAnalyzeDifficulty(outcome) =>
            /\ wf'.difficulty \in Levels
            /\ \A level \in Levels :
                  (outcome.kind = "value" /\ trim(toLowerCase(outcome.response)) = level)
                  => wf'.difficulty = level
            /\ (\/ outcome.kind # "value"
                \/ trim(toLowerCase(outcome.response)) \notin Levels)
               => wf'.difficulty = Intermediate]_vars

\* the answer ' Advanced ' became advanced
C34_Witness ==
    /\ wf.kind = "questions"
    /\ wf.pc = "generateQuestions"
    /\ wf.calls[1].outcome = [kind |-> "value",
                              response |-> <<Space, Word("Advanced"), Space>>]
    /\ wf.difficulty = <<Word("advanced")>>

\* C35: the summary of a SummaryResult is never empty: it is the answer of
\* the Model Invoker when that is not empty, and a literal marker text when
\* the text is missing or the call failed.
C35_SummaryNeverEmpty ==
    (wf.kind = "summary" /\ wf.pc = "done") =>
       LET outcome == wf.calls[2].outcome
       IN  /\ Len(wf.result.summary) > 0
           /\ (outcome.kind = "value" /\ outcome.response # <<>>)
              => wf.result.summary = outcome.response
           /\ (outcome.kind = "value" /\ outcome.response = <<>>)
              => wf.result.summary = UnableToGenerate
           /\ outcome.kind # "value" => wf.result.summary = ErrorGenerating

\* a summary run has returned the marker text after an answer without text
C35_Witness ==
    /\ wf.kind = "summary"
    /\ wf.pc = "done"
    /\ wf.calls[2].outcome = [kind |-> "value", response |-> <<>>]
    /\ wf.result.summary = UnableToGenerate

\* C36: a PostMessage that supplies noteContext on an initialized session
\* overwrites the context and refreshes lastActivity before the model is
\* called, and persists both at once, so they stay when the model call then
\* fails; a PostMessage without noteContext leaves the session state as it
\* was, and a failed model call changes neither the session state nor
\* storage.
C36_ContextBeforeModelCall ==
    [][/\ \A message \in Messages, noteContext \in PostContexts :
            /\ (handleMessage(message, TRUE, noteContext) /\ sessionData # Null)
                 => /\ sessionData'.noteContext = noteContext
                    /\ sessionData'.lastActivity = now
                    /\ sessionData'.noteId = sessionData.noteId
                    /\ storage'.sessionData = sessionData'
            /\ (handleMessage(message, FALSE, noteContext) /\ sessionData # Null)
                 => /\ sessionData' = sessionData
                    /\ storage' = storage
       /\ \A call \in inflight :
            AIReturns(call, Throw)
              => /\ sessionData' = sessionData
                 /\ storage' = storage]_vars

\* a model call has failed after its request supplied a context at a later
\* time than the initialization: context and lastActivity are the request's
C36_Witness ==
    /\ response.op = "message"
    /\ response.status = 500
    /\ sessionData # Null
    /\ sessionData.noteContext \in PostContexts
    /\ sessionData.lastActivity > 0
    /\ storage.sessionData = sessionData
    /\ storage.messages = <<>>

\* C37, as stated: lastActivity is the time of the most recent operation
\* that changed persisted state, Clear included, and never decreases.
C37_LastActivityIsLastChange ==
    [][/\ (sessionData' # Null /\ storage' # storage /\ response'.op # "alarm")
            => sessionData'.lastActivity = now
       /\ (sessionData # Null /\ sessionData' # Null)
            => sessionData'.lastActivity >= sessionData.lastActivity]_vars

\* C37, amended: lastActivity is the time of the most recent Initialize,
\* PostMessage or StoreMessage that changed persisted state; Clear (like the
\* wake-up) leaves the session state as it was; lastActivity never
\* decreases and changes only together with persisted state.
C37_LastActivityExceptClear ==
    [][/\ (sessionData' # Null /\ storage' # storage
              /\ response'.op \notin {"alarm", "clear"})
            => sessionData'.lastActivity = now
       /\ handleClear
            => /\ sessionData' = sessionData
               /\ storage'.sessionData = storage.sessionData
       /\ (sessionData # Null /\ sessionData' # Null)
            => sessionData'.lastActivity >= sessionData.lastActivity
       /\ (sessionData # Null /\ storage' = storage)
            => sessionData' = sessionData]_vars

\* a Clear has emptied the history of an initialized session later than the
\* session's lastActivity
C37_Witness ==
    /\ response.op = "clear"
    /\ response.req = ops
    /\ sessionData # Null
    /\ storage.sessionData = sessionData
    /\ storage.messages = <<>>
    /\ sessionData.lastActivity < now

Vocabulary == {"user", "assistant", "system"}

C39_RescheduleInFuture ==
    [][Alarm /\ sessionData # Null
         => /\ now - sessionData.lastActivity < twentyFourHours
                 => /\ alarm' = {sessionData.lastActivity + twentyFourHours}
                    /\ \A t \in alarm' : t > now
                    /\ storage' = storage
            /\ (\E t \in alarm : /\ now >= t
                                  /\ t = sessionData.lastActivity + twentyFourHours)
                 => /\ alarm' = {}
                    /\ storage'.messages = <<>>]_vars

\* a wake-up has found the session active since its Initialize and idle
\* for less than 24 hours, and has set the next one after the current time
C39_Witness ==
    /\ response.op = "alarm"
    /\ response.req = ops
    /\ sessionData # Null
    /\ sessionData.lastActivity > 0
    /\ alarm = {sessionData.lastActivity + twentyFourHours}
    /\ \A t \in alarm : t > now

====
